---- MODULE Spec2Model ----
(***************************************************************************)
(* Model of the library dependency extractor (package main).               *)
(*                                                                         *)
(* The program loads a library index (the Catalog) and a cache of already  *)
(* analysed libraries, then walks ctx.Libraries (the libraries found on    *)
(* disk), compiles a synthetic sketch for each one through the builder and *)
(* stores the libraries the builder imported in the record's Requires.     *)
(* A goroutine waits for SIGINT/SIGTERM and, when it arrives, writes the    *)
(* in-memory index and exits with status 2.                                *)
(*                                                                         *)
(* Strings that the code searches with strings.Contains or compares after  *)
(* filepath.Join are sequences of tokens; every token stands for a run of  *)
(* characters that is not split by any of the searches, so containment of  *)
(* token sequences is containment of the strings.  Two paths are the same  *)
(* when their tokens spell the same string.                                *)
(***************************************************************************)
EXTENDS Integers, Sequences, FiniteSets, TLC

VARIABLES
    world,              \* which installation (libraries on disk, index file, -libraries flags)
    forceRebuild,       \* -force
    exampleFlag,        \* -examples
    args,               \* the command line: -json given or not, the values of the
                        \* folder flags, the -build-path
    indexJson,          \* indexJson.Libraries, the decoded index
    previousRun,        \* previousRun.Exists, the decoded cache
    FQBN,               \* ctx.FQBN
    pc,                 \* position of the main goroutine
    libI,               \* index into ctx.Libraries of the range loop
    ImportedLibraries,  \* ctx.ImportedLibraries (indices into ctx.Libraries)
    deps,               \* deps of the current iteration
    internal_deps,      \* internal_deps of the current iteration
    exI,                \* index of the next example of the current library
    errors_examples,    \* len(errors_examples)
    buildErr,           \* err of the primary RunBuilder call
    usingSymlink,       \* usingSymlink of the current iteration
    finalJson,          \* finalJson, the bytes marshalled by main
    links,              \* symbolic links the program has created and not removed
    present,            \* other directory entries next to the library folders
    tempDirs,           \* sketch directories made by ioutil.TempDir and not removed
    wpc,                \* position of the signal goroutine
    sigc,               \* number of signals queued in channel c
    tempJsonCTRL,       \* tempJsonCTRL, the bytes marshalled by the goroutine
    enc,                \* the encoder of the goroutine's json.MarshalIndent
    catalogFile,        \* content of the file at *librariesJsonPath
    cacheFile,          \* content of cached_results.json
    exit,               \* how the process has ended, "running" before
    observed,           \* history: per disk library, what the builder imported for it
    attempted,          \* history: disk libraries whose probe was started
    aliased,            \* history: disk libraries for which os.Symlink was called
    builds,             \* history: per disk library, the outcome (ok) of each RunBuilder call
    cache0,             \* history: the cache as decoded at startup
    finalizedBy,        \* history: the assignments of Requires, in order: the disk
                        \* library, the record and the value assigned
    probeFQBN,          \* history: per disk library, ctx.FQBN of its primary probe
    catAtSig,           \* history: indexJson, main's position and the number of
                        \* libraries finalized when the signal arrived
    mainWrote,          \* history: files written by the end-of-run save
    hdrTree,            \* header selection: the library folder
    hdrScore,           \* header selection: Jaro-Winkler score (percent) per base name
    hdrOut,             \* header selection: the #include lines, or <<"none">> before the call
    selLib,             \* board selection: the library
    selPrev,            \* board selection: ctx.FQBN on entry
    selOut              \* board selection: ctx.FQBN after the chain of ifs, "-" before

mvars == <<world, forceRebuild, exampleFlag, args, indexJson, previousRun, FQBN, pc, libI,
           ImportedLibraries, deps, internal_deps, exI, errors_examples, buildErr,
           usingSymlink, finalJson, links, present, tempDirs, wpc, sigc, tempJsonCTRL, enc,
           catalogFile, cacheFile, exit, observed, attempted, aliased, builds,
           finalizedBy, probeFQBN, catAtSig, mainWrote, cache0>>
hvars == <<hdrTree, hdrScore, hdrOut, selLib, selPrev, selOut>>
vars == <<mvars, hvars>>

-----------------------------------------------------------------------------
(* Generic helpers *)

\* strings.Contains(s, sub) on token sequences
Contains(s, sub) ==
    \E k \in 0..(Len(s) - Len(sub)) : SubSeq(s, k + 1, k + Len(sub)) = sub

\* utils.SliceContains(slice, x)
SliceContains(slice, x) == \E k \in 1..Len(slice) : slice[k] = x

Range(s) == {s[k] : k \in 1..Len(s)}

NoDuplicates(s) == \A a, b \in 1..Len(s) : s[a] = s[b] => a = b

Prefixes(s) == {SubSeq(s, 1, n) : n \in 0..Len(s)}

-----------------------------------------------------------------------------
(* Folders *)

RootL == <<"/", "l">>             \* a -libraries folder
RootM == <<"/", "m">>             \* a second -libraries folder
RootB == <<"/", "b", "/", "l">>   \* a -built-in-libraries folder whose path holds "/l"
RootC == <<"/", "c">>             \* a core's libraries folder

\* library.Folder
Folder(lib) == lib.dir \o <<"/">> \o lib.Name

\* the string a sequence of tokens spells
RECURSIVE Text(_)
Text(tokens) == IF tokens = <<>> THEN "" ELSE tokens[1] \o Text(Tail(tokens))

\* filepath.Join(library.Folder, "..", library.RealName)
SymlinkWithBestName(lib) == lib.dir \o <<"/", lib.RealName>>

\* "folder lies under root": root is a whole-component prefix of folder
Under(folder, root) ==
    /\ Len(folder) > Len(root)
    /\ SubSeq(folder, 1, Len(root)) = root
    /\ folder[Len(root) + 1] = "/"

-----------------------------------------------------------------------------
(* Installations.  A disk library is a *types.Library as the program reads  *)
(* it: Name (the folder's base name), RealName (the name of the library's   *)
(* properties, the one the index uses), Version, Archs and the folder,      *)
(* given by its parent directory dir.  An installation also tells whether   *)
(* its cached_results.json may hold an entry of a library that is no longer *)
(* on disk (stale).  An index record is an indexLibrary;                    *)
(* URL stands for the fields the program never assigns.  Requires is a      *)
(* slice: its elements, and RequiresNil, whether its pointer word is nil    *)
(* (the nil slice has no element).                                          *)

Lib(dir, name, real, archs) ==
    [dir |-> dir, Name |-> name, RealName |-> real, Version |-> "1.0.0", Archs |-> archs]

\* a record whose "requires" the index file spells as an array, [] included
Rec(name, requires) ==
    [LibraryName |-> name, Version |-> "1.0.0", URL |-> "http://x/",
     Requires |-> requires, RequiresNil |-> FALSE]

\* a record whose "requires" the index file spells null
RecNull(name) == [Rec(name, <<>>) EXCEPT !.RequiresNil = TRUE]

\* Two libraries in the -libraries folder, B's header includes A's.  A
\* declares no architecture, which the builder's loader reads as "*".
WorldE2E ==
    [roots     |-> <<RootL>>,
     Libraries |-> <<Lib(RootL, <<"A", "-1.0.0">>, "A", <<"*">>),
                     Lib(RootL, <<"b">>, "B", <<"avr">>)>>,
     index     |-> <<Rec("A", <<"Z", "Y">>), Rec("B", <<>>)>>,
     primary   |-> << <<1>>, <<2, 1>> >>,
     examples  |-> << <<>>, <<>> >>,
     stale     |-> FALSE]

\* Two -libraries folders, a core library; only E is in the index.
WorldRoots ==
    [roots     |-> <<RootL, RootM>>,
     Libraries |-> <<Lib(RootC, <<"S">>, "S", <<"*">>),
                     Lib(RootM, <<"D">>, "D", <<"samd">>),
                     Lib(RootL, <<"E">>, "E", <<"sam">>)>>,
     index     |-> <<Rec("E", <<"Q">>)>>,
     primary   |-> << <<1>>, <<2>>, <<3, 1>> >>,
     examples  |-> << <<>>, <<>>, << <<3, 2>>, <<1, 2>> >> >>,
     stale     |-> FALSE]

\* A built-in library whose folder path holds the -libraries path inside it.
WorldSubstr ==
    [roots     |-> <<RootL>>,
     Libraries |-> <<Lib(RootB, <<"W">>, "W", <<"*">>),
                     Lib(RootL, <<"F", "-2.0">>, "F", <<"stm32">>)>>,
     index     |-> <<Rec("F", <<"Q", "W">>)>>,
     primary   |-> << <<1>>, <<2, 1>> >>,
     examples  |-> << <<>>, <<>> >>,
     stale     |-> TRUE]

\* Two folders holding the same library and version, a library that is not in
\* the index, a record with no folder.
WorldDups ==
    [roots     |-> <<RootL>>,
     Libraries |-> <<Lib(RootL, <<"G", "-1.0.0">>, "G", <<"sam">>),
                     Lib(RootL, <<"G">>, "G", <<"stm32">>),
                     Lib(RootL, <<"H">>, "H", <<"stm32">>)>>,
     index     |-> <<RecNull("G"), Rec("K", <<"H">>)>>,
     primary   |-> << <<1, 3>>, <<2>>, <<3>> >>,
     examples  |-> << <<>>, <<>>, <<>> >>,
     stale     |-> FALSE]

\* No -libraries flag given: ctx.OtherLibrariesFolders stays empty.
WorldBare ==
    [roots     |-> <<>>,
     Libraries |-> <<Lib(RootC, <<"P">>, "P", <<"avr">>),
                     Lib(RootC, <<"Q">>, "Q", <<"*">>)>>,
     index     |-> <<Rec("P", <<>>), RecNull("Q")>>,
     primary   |-> << <<1, 2>>, <<2>> >>,
     examples  |-> << <<>>, <<>> >>,
     stale     |-> FALSE]

\* Libraries whose names select the board (lines 301-307).  The first one's
\* properties name it as its folder is named, so it gets no symlink; the
\* properties of the second name it otherwise.
WorldRobot ==
    [roots     |-> <<RootL>>,
     Libraries |-> <<Lib(RootL, <<"Robot", "_", "Control">>, "Robot_Control", <<"avr">>),
                     Lib(RootL, <<"Robot", "_", "Motor">>, "Robot Motor", <<"esp8266", "avr">>)>>,
     index     |-> <<Rec("Robot_Control", <<>>), RecNull("Robot Motor")>>,
     primary   |-> << <<1>>, <<2>> >>,
     examples  |-> << <<>>, <<>> >>,
     stale     |-> FALSE]

\* A library with examples that imports a core library and a -libraries
\* library: the primary probe imports itself and core library C, the first
\* example imports X and C again, the second example imports X again.
WorldMixed ==
    [roots     |-> <<RootL>>,
     Libraries |-> <<Lib(RootC, <<"C">>, "C", <<"*">>),
                     Lib(RootL, <<"X">>, "X", <<"avr">>),
                     Lib(RootL, <<"M">>, "M", <<"avr">>)>>,
     index     |-> <<Rec("M", <<>>)>>,
     primary   |-> << <<1>>, <<2>>, <<3, 1>> >>,
     examples  |-> << <<>>, <<>>, << <<2, 1>>, <<2>> >> >>,
     stale     |-> FALSE]

\* builder.RunParseHardwareAndDumpBuildProperties failed or found no library:
\* ctx.Libraries is empty.
WorldNone ==
    [roots     |-> <<RootL>>,
     Libraries |-> <<>>,
     index     |-> <<Rec("A", <<"Z">>)>>,
     primary   |-> <<>>,
     examples  |-> <<>>,
     stale     |-> TRUE]

Worlds == {"e2e", "roots", "substr", "dups", "bare", "robot", "mixed", "none"}

WorldOf(w) ==
    CASE w = "e2e"    -> WorldE2E
      [] w = "roots"  -> WorldRoots
      [] w = "substr" -> WorldSubstr
      [] w = "dups"   -> WorldDups
      [] w = "bare"   -> WorldBare
      [] w = "robot"  -> WorldRobot
      [] w = "mixed"  -> WorldMixed
      [] w = "none"   -> WorldNone

W == WorldOf(world)
Libraries == W.Libraries          \* ctx.Libraries
NLibs == Len(Libraries)
OtherLibrariesFolders == W.roots  \* ctx.OtherLibrariesFolders

\* An entry of the cache that belongs to no library on disk.
StaleKey == <<"old">>

\* the keys a loaded cache may hold: the libraries on disk that the index
\* knows, and the stale key in the installations whose cached_results.json
\* may have one
CacheKeys(w) ==
    LET libs == WorldOf(w).Libraries
        names == {WorldOf(w).index[k].LibraryName : k \in 1..Len(WorldOf(w).index)}
    IN  {libs[k].Name : k \in {j \in 1..Len(libs) : libs[j].RealName \in names}}
        \cup (IF WorldOf(w).stale THEN {StaleKey} ELSE {})

\* previousRun.Exists[key]: a Go map read, false for a missing key
Exists(cache, key) == key \in DOMAIN cache /\ cache[key] = "true"

-----------------------------------------------------------------------------
(* Pure parts of main *)

\* indexJsonContains(index, name, version): first matching index, 0 for -1
indexJsonContains(index, name, version) ==
    LET hits == {k \in 1..Len(index) :
                    index[k].LibraryName = name /\ index[k].Version = version}
    IN  IF hits = {} THEN 0 ELSE CHOOSE k \in hits : \A j \in hits : k <= j

\* AlreadyAnalyzed without the -force flag
AlreadyAnalyzedIgnoringForce(cache, lib, force) == Exists(cache, lib.Name)

\* the test of the second continue of the loop
AlreadyAnalyzed(cache, lib, force) == Exists(cache, lib.Name) /\ force = FALSE

\* the test that guards os.Symlink
NeedsSymlink(lib) == Text(SymlinkWithBestName(lib)) # Text(Folder(lib))

DefaultFQBN == "arduino:avr:uno"

\* SelectFQBN with the name rules after the architecture rules
SelectFQBNNamesLast(prev, lib) ==
    LET f1 == IF lib.Archs[1] = "*" \/ SliceContains(lib.Archs, "avr")
              THEN "arduino:avr:micro" ELSE prev
        f2 == IF SliceContains(lib.Archs, "sam") THEN "arduino:sam:arduino_due_x_dbg" ELSE f1
        f3 == IF SliceContains(lib.Archs, "samd") THEN "arduino:samd:mkr1000" ELSE f2
        f4 == IF SliceContains(lib.Archs, "arc32") THEN "Intel:arc32:arduino_101" ELSE f3
        f5 == IF SliceContains(lib.Archs, "esp8266") THEN "esp8266:esp8266:nodemcuv2:CpuFrequency=80,UploadSpeed=115200,FlashSize=4M3M"
              ELSE f4
        f6 == IF Contains(lib.Name, <<"Robot">>)
              THEN IF Contains(lib.Name, <<"Control">>)
                   THEN "arduino:avr:robotControl" ELSE "arduino:avr:robotMotor"
              ELSE f5
    IN  IF Contains(lib.Name, <<"Adafruit">>) /\ Contains(lib.Name, <<"Playground">>)
        THEN "arduino:avr:circuitplay32u4cat" ELSE f6

\* the chain of ifs that assigns ctx.FQBN; prev is ctx.FQBN on entry
SelectFQBN(prev, lib) ==
    LET f1 == IF lib.Archs[1] = "*" \/ SliceContains(lib.Archs, "avr")
              THEN "arduino:avr:micro" ELSE prev
        f2 == IF Contains(lib.Name, <<"Robot">>)
              THEN IF Contains(lib.Name, <<"Control">>)
                   THEN "arduino:avr:robotControl" ELSE "arduino:avr:robotMotor"
              ELSE f1
        f3 == IF Contains(lib.Name, <<"Adafruit">>) /\ Contains(lib.Name, <<"Playground">>)
              THEN "arduino:avr:circuitplay32u4cat" ELSE f2
        f4 == IF SliceContains(lib.Archs, "sam") THEN "arduino:sam:arduino_due_x_dbg" ELSE f3
        f5 == IF SliceContains(lib.Archs, "samd") THEN "arduino:samd:mkr1000" ELSE f4
        f6 == IF SliceContains(lib.Archs, "arc32") THEN "Intel:arc32:arduino_101" ELSE f5
    IN  IF SliceContains(lib.Archs, "esp8266") THEN "esp8266:esp8266:nodemcuv2:CpuFrequency=80,UploadSpeed=115200,FlashSize=4M3M"
        ELSE f6

\* the test that sends a dependency to deps rather than internal_deps
IsExternal(dep, roots) == Contains(Folder(dep), roots[1])

\* IsNewDep without the comparison with the library itself
IsNewDepKeepSelf(dep, lib, d, in) ==
    /\ ~SliceContains(d, dep.RealName)
    /\ ~SliceContains(in, dep.RealName)

\* IsNewDep without the search in deps
IsNewDepIgnoringDeps(dep, lib, d, in) ==
    /\ dep.RealName # lib.RealName
    /\ ~SliceContains(in, dep.RealName)

\* the test that lets a dependency be classified at all
IsNewDep(dep, lib, d, in) ==
    /\ dep.RealName # lib.RealName
    /\ ~SliceContains(d, dep.RealName)
    /\ ~SliceContains(in, dep.RealName)

\* the loop over ctx.ImportedLibraries, from position k; panic when
\* ctx.OtherLibrariesFolders[0] is read and the slice is empty
RECURSIVE Classify(_, _, _, _, _, _, _)
Classify(imports, k, lib, d, in, libs, roots) ==
    IF k > Len(imports)
    THEN [deps |-> d, internal |-> in, panic |-> FALSE]
    ELSE LET dep == libs[imports[k]]
         IN  IF IsNewDep(dep, lib, d, in)
             THEN IF Len(roots) = 0
                  THEN [deps |-> d, internal |-> in, panic |-> TRUE]
                  ELSE IF IsExternal(dep, roots)
                       THEN Classify(imports, k + 1, lib, Append(d, dep.RealName), in, libs, roots)
                       ELSE Classify(imports, k + 1, lib, d, Append(in, dep.RealName), libs, roots)
             ELSE Classify(imports, k + 1, lib, d, in, libs, roots)

\* ClassifyExample with deps and internal_deps made anew for the example
ClassifyExampleAfresh(imports, lib, d, in, libs, roots) ==
    Classify(imports, 1, lib, <<>>, <<>>, libs, roots)

\* the loop over ctx.ImportedLibraries of the example pass: it goes on with
\* the deps and internal_deps of the iteration
ClassifyExample(imports, lib, d, in, libs, roots) ==
    Classify(imports, 1, lib, d, in, libs, roots)

\* if err != nil { errors_examples = append(errors_examples, err.Error()) },
\* with an entry added for every example
RecordErrorAlways(errs, ok) == errs + 1

\* if err != nil { errors_examples = append(errors_examples, err.Error()) }
RecordError(errs, ok) == IF ok THEN errs ELSE errs + 1

\* builder.RunBuilder: the imports the installation gives for the sketch, all
\* of them when the build succeeds, those found so far when it fails
BuildOutcomes(full) ==
    {[imports |-> full, ok |-> TRUE]} \cup
    {[imports |-> p, ok |-> FALSE] : p \in Prefixes(full)}

-----------------------------------------------------------------------------------------------------------------------------------------------------
(* Files.  A file is its bytes, a string, in the layout json.MarshalIndent  *)
(* with prefix "" and indent "    " writes; ioutil.WriteFile opens with     *)
(* O_TRUNC and then writes at offset 0.                                     *)

\* a JSON string (the names of the installations need no escape)
Quote(str) == "\"" \o str \o "\""

ElementIndent == "\n                "
ArrayEnd == "\n            ]"
NameKey == "\n        {\n            \"name\": "
VersionKey == ",\n            \"version\": "
RequiresKey == ",\n            \"requires\": "
URLKey == ",\n            \"url\": "
RecordEnd == "\n        }"
LibrariesKey == "{\n    \"libraries\": "
LibrariesEnd == "\n    ]\n}"

\* the elements of an array that has some, one on a line
RECURSIVE EncodeElements(_)
EncodeElements(elems) ==
    ElementIndent \o Quote(Head(elems)) \o
    (IF Len(elems) = 1 THEN "" ELSE "," \o EncodeElements(Tail(elems)))

\* the slice encoder: null for the nil slice, [] for an empty one
EncodeRequires(r) ==
    IF r.RequiresNil THEN "null"
    ELSE IF r.Requires = <<>> THEN "[]"
    ELSE "[" \o EncodeElements(r.Requires) \o ArrayEnd

\* the struct encoder on an indexLibrary, the fields in their order
EncodeRecord(r) ==
    NameKey \o Quote(r.LibraryName) \o
    VersionKey \o Quote(r.Version) \o
    RequiresKey \o EncodeRequires(r) \o
    URLKey \o Quote(r.URL) \o
    RecordEnd

RECURSIVE EncodeRecords(_)
EncodeRecords(recs) ==
    EncodeRecord(Head(recs)) \o
    (IF Len(recs) = 1 THEN "" ELSE "," \o EncodeRecords(Tail(recs)))

\* json.MarshalIndent(&indexJson, "", "    ")
Marshal(index) ==
    IF index = <<>>
    THEN LibrariesKey \o "null\n}"
    ELSE LibrariesKey \o "[" \o EncodeRecords(index) \o LibrariesEnd

\* the encoder of the goroutine's json.MarshalIndent before it has read
\* anything: the records encoded, the length read for the Requires of the
\* record being encoded (-1: not read yet), its elements read so far, and
\* the assignment of line 421 whose length word, whose pointer word the
\* goroutine has already read as assigned (0: none)
EncIdle == [recs |-> <<>>, n |-> -1, elems |-> <<>>, lenSeen |-> 0, dataSeen |-> 0]

\* the bytes of s from byte i on start with lit
At(s, i, lit) ==
    i + Len(lit) - 1 <= Len(s) /\ SubSeq(s, i, i + Len(lit) - 1) = lit

\* what the decoder gives where the bytes are not what it expects
SyntaxError == [ok |-> FALSE]

\* the first quote of s at byte j or after it, 0 when there is none
RECURSIVE QuoteFrom(_, _)
QuoteFrom(s, j) ==
    IF j > Len(s) THEN 0
    ELSE IF SubSeq(s, j, j) = "\"" THEN j
    ELSE QuoteFrom(s, j + 1)

\* the decoder on a JSON string that starts at byte i
ScanString(s, i) ==
    LET j == QuoteFrom(s, i + 1)
    IN  IF At(s, i, "\"") /\ j # 0
        THEN [ok |-> TRUE, val |-> SubSeq(s, i + 1, j - 1), next |-> j + 1]
        ELSE SyntaxError

\* the decoder on the elements of an array from byte i on, acc decoded
RECURSIVE ScanElements(_, _, _)
ScanElements(s, i, acc) ==
    LET e == ScanString(s, i + Len(ElementIndent))
    IN  IF ~(At(s, i, ElementIndent) /\ e.ok)
        THEN SyntaxError
        ELSE IF At(s, e.next, ",")
        THEN ScanElements(s, e.next + 1, Append(acc, e.val))
        ELSE IF At(s, e.next, ArrayEnd)
        THEN [ok |-> TRUE, val |-> Append(acc, e.val), nil |-> FALSE,
              next |-> e.next + Len(ArrayEnd)]
        ELSE SyntaxError

\* the decoder on the value of "requires" at byte i: null gives the nil
\* slice, an array a slice that is not nil
ScanRequires(s, i) ==
    IF At(s, i, "null")
    THEN [ok |-> TRUE, val |-> <<>>, nil |-> TRUE, next |-> i + 4]
    ELSE IF At(s, i, "[]")
    THEN [ok |-> TRUE, val |-> <<>>, nil |-> FALSE, next |-> i + 2]
    ELSE IF At(s, i, "[")
    THEN ScanElements(s, i + 1, <<>>)
    ELSE SyntaxError

\* the decoder on a record that starts at byte i
ScanRecord(s, i) ==
    LET name == ScanString(s, i + Len(NameKey))
        version == ScanString(s, name.next + Len(VersionKey))
        requires == ScanRequires(s, version.next + Len(RequiresKey))
        url == ScanString(s, requires.next + Len(URLKey))
    IN  IF /\ At(s, i, NameKey) /\ name.ok
           /\ At(s, name.next, VersionKey) /\ version.ok
           /\ At(s, version.next, RequiresKey) /\ requires.ok
           /\ At(s, requires.next, URLKey) /\ url.ok
           /\ At(s, url.next, RecordEnd)
        THEN [ok |-> TRUE,
              val |-> [LibraryName |-> name.val, Version |-> version.val,
                       URL |-> url.val, Requires |-> requires.val,
                       RequiresNil |-> requires.nil],
              next |-> url.next + Len(RecordEnd)]
        ELSE SyntaxError

\* the decoder on the records of "libraries" from byte i on, acc decoded: the
\* array ends the file
RECURSIVE ScanRecords(_, _, _)
ScanRecords(s, i, acc) ==
    LET r == ScanRecord(s, i)
    IN  IF ~r.ok
        THEN SyntaxError
        ELSE IF At(s, r.next, ",")
        THEN ScanRecords(s, r.next + 1, Append(acc, r.val))
        ELSE IF At(s, r.next, LibrariesEnd) /\ r.next + Len(LibrariesEnd) - 1 = Len(s)
        THEN [ok |-> TRUE, val |-> Append(acc, r.val)]
        ELSE SyntaxError

\* json.Unmarshal(dec, &indexJson): bytes after the value are an error
Decode(f) ==
    IF f = Marshal(<<>>)
    THEN [ok |-> TRUE, val |-> <<>>]
    ELSE IF At(f, 1, LibrariesKey \o "[")
    THEN ScanRecords(f, Len(LibrariesKey) + 2, <<>>)
    ELSE SyntaxError

\* json.Unmarshal of the file succeeds
Decodes(f) == Decode(f).ok

\* indexJson.Libraries after json.Unmarshal of a file that decodes
Unmarshal(f) == Decode(f).val

\* f.Write(data) at offset 0 of a file that now holds old: the bytes of old
\* past the length of data stay
WriteAt0(old, data) == data \o SubSeq(old, Len(data) + 1, Len(old))

-----------------------------------------------------------------------------
(* Header selection.  A folder is its header files, in the order            *)
(* utils.ReadDirFiltered lists them, and its subfolders, in listing order;  *)
(* ok tells whether utils.ReadDirFiltered succeeds on the folder.  A folder *)
(* that cannot be listed shows nothing of its content.                      *)
(* A found header is its path: the positions of the subfolders walked from  *)
(* the library folder, then the file's base name.  The Jaro-Winkler         *)
(* distance of a base name to library.Name is given per base name, in       *)
(* hundredths.                                                              *)

HdrNames == {"a.h", "b.h"}
FileLists == {<<>>, <<"a.h">>, <<"b.h">>, <<"a.h", "b.h">>}
ScoreValues == {90, 91}
Threshold == 90   \* > 0.9
MaxSubs == 2      \* subfolders of the library folder

Base(path) == path[Len(path)]           \* filepath.Base(header)

\* a folder one of whose two listings (utils.ReadDirFiltered for the files,
\* for the folders) fails
Unreadable == [files |-> <<>>, dirs |-> <<>>, ok |-> FALSE]

LeafFolders == {[files |-> f, dirs |-> <<>>, ok |-> TRUE] : f \in FileLists} \cup {Unreadable}
SubFolders ==
    {[files |-> f, dirs |-> d, ok |-> TRUE] :
        f \in FileLists, d \in {<<>>} \cup {<<l>> : l \in LeafFolders}}
    \cup {Unreadable}
SubFolderLists == UNION {[1..n -> SubFolders] : n \in 0..MaxSubs}
RootFolders ==
    {[files |-> f, dirs |-> d, ok |-> TRUE] : f \in FileLists, d \in SubFolderLists}
    \cup {Unreadable}

NoFolder == [files |-> <<>>, dirs |-> <<>>, ok |-> TRUE]

\* the folder of a library of the installations: one header, no subfolder
LibraryFolder == [files |-> <<"a.h">>, dirs |-> <<>>, ok |-> TRUE]
NotCalled == [called |-> FALSE, headers |-> <<>>, sketch |-> <<>>]

RECURSIVE findFilesInFolder(_, _)
RECURSIVE findInSubfolders(_, _, _, _)

\* return nil, i18n.WrapError(err)
Failed == [sources |-> <<>>, err |-> TRUE]

\* the loop over folders of findFilesInFolder, from subfolder k, sources being
\* what has been appended so far; an error of a recursive call ends it
findInSubfolders(folder, sourcePath, k, sources) ==
    IF k > Len(folder.dirs)
    THEN [sources |-> sources, err |-> FALSE]
    ELSE LET other == findFilesInFolder(folder.dirs[k], Append(sourcePath, k))
         IN  IF other.err
             THEN Failed
             ELSE findInSubfolders(folder, sourcePath, k + 1, sources \o other.sources)

\* findFilesInFolder(sourcePath, ".h", true): the sources and whether err != nil
findFilesInFolder(folder, sourcePath) ==
    IF ~folder.ok
    THEN Failed
    ELSE findInSubfolders(folder, sourcePath, 1,
             [k \in 1..Len(folder.files) |-> Append(sourcePath, folder.files[k])])

\* textdistance.JaroWinklerDistance(filepath.Base(header), library.Name) > 0.9
Confident(header, score) == score[Base(header)] > Threshold

\* the loop of includeHeadersFromLibraryFolder from header k: the lines added
RECURSIVE includeConfident(_, _, _)
includeConfident(headers, k, score) ==
    IF k > Len(headers)
    THEN <<>>
    ELSE (IF Confident(headers[k], score) THEN <<Base(headers[k])>> ELSE <<>>)
         \o includeConfident(headers, k + 1, score)

\* includeHeadersFromLibraryFolder(library): the base names of the #include
\* lines; the error of findFilesInFolder is dropped
includeHeadersFromLibraryFolder(folder, score) ==
    LET headers == findFilesInFolder(folder, <<>>).sources
        temp == includeConfident(headers, 1, score)
        includedLibs == Len(temp)
    IN  IF includedLibs = 0 /\ Len(headers) > 0
        THEN <<Base(headers[1])>>
        ELSE temp

-----------------------------------------------------------------------------
(* The state after startup: flags parsed, cache and index decoded, the      *)
(* signal goroutine started.                                                *)

\* the inputs of the board selection on its own
ArchTags == {"*", "avr", "sam", "samd", "arc32", "esp8266", "stm32"}
MaxArchs == 2     \* architectures a library declares
SelArchs == UNION {[1..n -> ArchTags] : n \in 1..MaxArchs}
SelNames == {<<"Servo">>, <<"Control">>, <<"Robot", "_", "Control">>,
             <<"Robot", "_", "Motor">>, <<"Adafruit", "_", "Circuit", "Playground">>,
             <<"Adafruit", "_", "Robot", "Playground">>}
SelBoards == {DefaultFQBN, "arduino:samd:mkr1000"}
NoLib == [dir |-> <<>>, Name |-> <<>>, RealName |-> "", Version |-> "", Archs |-> <<>>]
SelIdle == selLib = NoLib /\ selPrev = "" /\ selOut = "-"

\* a folder flag: not given, given with values that unquote, given with a
\* value that gohasissues.Unquote rejects
FolderFlags == {"absent", "ok", "unquotable"}

\* -build-path: not given, an existing folder, a value that does not unquote,
\* a path os.Stat fails on, a path utils.EnsureFolderExists fails on
BuildPaths == {"absent", "ok", "unquotable", "nostat", "noensure"}

\* the command lines of the runs that start
CommandLines ==
    [json : BOOLEAN, hardware : FolderFlags, tools : FolderFlags,
     libraries : {"ok", "unquotable"}, builtIn : {"ok", "unquotable"},
     buildPath : BuildPaths]

\* a command line with -json, -hardware and -tools and nothing wrong
AllGiven ==
    [json |-> TRUE, hardware |-> "ok", tools |-> "ok", libraries |-> "ok",
     builtIn |-> "ok", buildPath |-> "absent"]

\* the folder ioutil.TempDir("", "core_cache") makes, among the sketch
\* folders, which are numbered by their library
CoreCacheDir == 0

\* previousRun.Exists after a cached_results.json that holds a map: a key is
\* missing, true or false
Caches(w) ==
    [CacheKeys(w) -> {"none", "true", "false"}]

\* previousRun.Exists after a cached_results.json that spells the map null,
\* {"name": null}: json.Unmarshal sets the map to nil
NilMap == [k \in {<<"nil">>} |-> "nil"]

Init ==
    /\ world \in Worlds
    /\ forceRebuild \in BOOLEAN
    /\ exampleFlag \in BOOLEAN
    /\ args = AllGiven
    /\ indexJson = W.index
    /\ previousRun \in Caches(world) \cup {NilMap}
    /\ FQBN = DefaultFQBN
    /\ pc = "loop"
    /\ libI = 1
    /\ ImportedLibraries = <<>>
    /\ deps = <<>>
    /\ internal_deps = <<>>
    /\ exI = 1
    /\ errors_examples = 0
    /\ buildErr = FALSE
    /\ usingSymlink = FALSE
    /\ finalJson = ""
    /\ links = {}
    /\ present = {Folder(Libraries[k]) : k \in 1..NLibs}
    /\ tempDirs = {CoreCacheDir}
    /\ wpc = "wait"
    /\ sigc = 0
    /\ tempJsonCTRL = ""
    /\ enc = EncIdle
    /\ catalogFile = Marshal(W.index)
    /\ cacheFile = previousRun
    /\ cache0 = previousRun
    /\ exit = "running"
    /\ observed = [k \in 1..NLibs |-> {}]
    /\ attempted = {}
    /\ aliased = {}
    /\ builds = [k \in 1..NLibs |-> <<>>]
    /\ finalizedBy = <<>>
    /\ probeFQBN = [k \in 1..NLibs |-> "-"]
    /\ catAtSig = [index |-> <<>>, inLoop |-> FALSE, finalized |-> 0]
    /\ mainWrote = {}
    /\ hdrTree = LibraryFolder
    /\ hdrScore = [n \in HdrNames |-> 0]
    /\ hdrOut = NotCalled
    /\ SelIdle

Running == exit = "running"
InLoop == Running /\ pc = "loop" /\ libI <= NLibs
library == Libraries[libI]
libIndex == indexJsonContains(indexJson, library.RealName, library.Version)

main_vars == <<indexJson, previousRun, FQBN, pc, libI, ImportedLibraries, deps,
               internal_deps, exI, errors_examples, buildErr, usingSymlink, finalJson,
               links, present, tempDirs, cacheFile, observed, attempted, aliased,
               builds, finalizedBy, probeFQBN, mainWrote>>
cfg_vars == <<world, forceRebuild, exampleFlag, args, cache0>>
watcher_vars == <<wpc, sigc, tempJsonCTRL, enc, catAtSig>>

-----------------------------------------------------------------------------
(* The main goroutine *)

\* library not in index: continue
SkipNotInIndex ==
    /\ InLoop
    /\ libIndex = 0
    /\ libI' = libI + 1
    /\ UNCHANGED <<cfg_vars, watcher_vars, hvars, catalogFile, exit, indexJson,
                   previousRun, FQBN, pc, ImportedLibraries, deps, internal_deps, exI,
                   errors_examples, buildErr, usingSymlink, finalJson, links, present,
                   tempDirs, cacheFile, observed, attempted, aliased, builds,
                   finalizedBy, probeFQBN, mainWrote>>

\* dependencies already analysed: continue
SkipAnalyzed ==
    /\ InLoop
    /\ libIndex # 0
    /\ AlreadyAnalyzed(previousRun, library, forceRebuild)
    /\ libI' = libI + 1
    /\ UNCHANGED <<cfg_vars, watcher_vars, hvars, catalogFile, exit, indexJson,
                   previousRun, FQBN, pc, ImportedLibraries, deps, internal_deps, exI,
                   errors_examples, buildErr, usingSymlink, finalJson, links, present,
                   tempDirs, cacheFile, observed, attempted, aliased, builds,
                   finalizedBy, probeFQBN, mainWrote>>

\* os.Symlink(library.Folder, path): fails when path exists
SymlinkResult(path) ==
    IF \E q \in links \cup present : Text(q) = Text(path)
    THEN links
    ELSE links \cup {path}

\* the symlink: os.Symlink(library.Folder, symlinkWithBestName) when the two
\* paths differ; usingSymlink is set whether or not the call succeeded
BeginProbe ==
    /\ InLoop
    /\ libIndex # 0
    /\ ~AlreadyAnalyzed(previousRun, library, forceRebuild)
    /\ IF NeedsSymlink(library)
       THEN /\ links' = SymlinkResult(SymlinkWithBestName(library))
            /\ usingSymlink' = TRUE
            /\ aliased' = aliased \cup {libI}
       ELSE /\ usingSymlink' = FALSE
            /\ UNCHANGED <<links, aliased>>
    /\ attempted' = attempted \cup {libI}
    /\ pc' = "linked"
    /\ UNCHANGED <<cfg_vars, watcher_vars, hvars, catalogFile, exit, indexJson,
                   previousRun, FQBN, libI, ImportedLibraries, deps, internal_deps, exI,
                   errors_examples, buildErr, finalJson, present, tempDirs, cacheFile,
                   observed, builds, finalizedBy, probeFQBN, mainWrote>>

\* the board, the wipe of ctx.ImportedLibraries, ioutil.TempDir("", "sketch"...)
MakeSketchDir ==
    /\ Running /\ pc = "linked"
    /\ IF Len(library.Archs) = 0
       THEN \* library.Archs[0]: index out of range
            /\ exit' = "panic"
            /\ UNCHANGED <<FQBN, ImportedLibraries, tempDirs, pc, probeFQBN>>
       ELSE /\ FQBN' = SelectFQBN(FQBN, library)
            /\ probeFQBN' = [probeFQBN EXCEPT ![libI] = FQBN']
            /\ ImportedLibraries' = <<>>
            /\ tempDirs' = tempDirs \cup {libI}
            /\ pc' = "tempdir"
            /\ UNCHANGED exit
    /\ UNCHANGED <<cfg_vars, watcher_vars, hvars, catalogFile, indexJson, previousRun,
                   libI, deps, internal_deps, exI, errors_examples, buildErr,
                   usingSymlink, finalJson, links, present, cacheFile, observed,
                   attempted, aliased, builds, finalizedBy, mainWrote>>

\* library.Folder is on disk
FolderPresent == \E q \in present : Text(q) = Text(Folder(library))

\* what the listings of library.Folder find: the folder of the installation,
\* or an error when the run has removed the folder (line 418 of an earlier
\* iteration whose symlink path it was)
libraryFolder == IF FolderPresent THEN hdrTree ELSE Unreadable

\* sketch := includeHeadersFromLibraryFolder(library) and the write of
\* sketch.ino into the sketch folder
WriteSketch ==
    /\ Running /\ pc = "tempdir"
    /\ hdrOut' = [called  |-> TRUE,
                  headers |-> findFilesInFolder(libraryFolder, <<>>).sources,
                  sketch  |-> includeHeadersFromLibraryFolder(libraryFolder, hdrScore)]
    /\ pc' = "build"
    /\ UNCHANGED <<cfg_vars, watcher_vars, hdrTree, hdrScore, selLib, selPrev, selOut,
                   catalogFile, exit, indexJson,
                   previousRun, FQBN, libI, ImportedLibraries, deps, internal_deps, exI,
                   errors_examples, buildErr, usingSymlink, finalJson, links, present,
                   tempDirs, cacheFile, observed, attempted, aliased, builds,
                   finalizedBy, probeFQBN, mainWrote>>

\* err = builder.RunBuilder(ctx) on the synthetic sketch: what the builder
\* imports for the headers of the library is given by the installation; for
\* a sketch with no #include it imports nothing
RunBuilderPrimary ==
    /\ Running /\ pc = "build"
    /\ \E out \in BuildOutcomes(IF hdrOut.sketch = <<>> THEN <<>> ELSE W.primary[libI]) :
         /\ ImportedLibraries' = out.imports
         /\ buildErr' = ~out.ok
         /\ observed' = [observed EXCEPT ![libI] = @ \cup Range(out.imports)]
         /\ builds' = [builds EXCEPT ![libI] = Append(@, out.ok)]
    /\ pc' = "built"
    /\ UNCHANGED <<cfg_vars, watcher_vars, hvars, catalogFile, exit, indexJson,
                   previousRun, FQBN, libI, deps, internal_deps, exI, errors_examples,
                   usingSymlink, finalJson, links, present, tempDirs, cacheFile,
                   attempted, aliased, finalizedBy, probeFQBN, mainWrote>>

\* os.Remove(tempDir), os.RemoveAll(tempDir)
RemoveSketchDir ==
    /\ Running /\ pc = "built"
    /\ tempDirs' = tempDirs \ {libI}
    /\ pc' = "removed"
    /\ UNCHANGED <<cfg_vars, watcher_vars, hvars, catalogFile, exit, indexJson,
                   previousRun, FQBN, libI, ImportedLibraries, deps, internal_deps, exI,
                   errors_examples, buildErr, usingSymlink, finalJson, links, present,
                   cacheFile, observed, attempted, aliased, builds, finalizedBy,
                   probeFQBN, mainWrote>>

\* classify the imports of the primary probe, print the summary, list the
\* examples
AfterBuild ==
    /\ Running /\ pc = "removed"
    /\ LET c == Classify(ImportedLibraries, 1, library, <<>>, <<>>, Libraries,
                         OtherLibrariesFolders)
       IN  /\ deps' = c.deps
           /\ internal_deps' = c.internal
           /\ IF c.panic
              THEN exit' = "panic" /\ UNCHANGED pc
              ELSE /\ pc' = IF exampleFlag THEN "example" ELSE "finalize"
                   /\ UNCHANGED exit
    /\ exI' = 1
    /\ errors_examples' = 0
    /\ UNCHANGED <<cfg_vars, watcher_vars, hvars, catalogFile, indexJson, previousRun,
                   FQBN, libI, ImportedLibraries, buildErr, usingSymlink, finalJson,
                   links, present, tempDirs, cacheFile, observed, attempted, aliased, builds,
                   finalizedBy, probeFQBN, mainWrote>>

\* examples, _ := findFilesInFolder(libraryExamplesPath, ".ino", true)
examples == IF FolderPresent THEN W.examples[libI] ELSE <<>>

\* one turn of the loop over the examples begins: ctx.SketchLocation = example
\* and the wipe of ctx.ImportedLibraries
StartExample ==
    /\ Running /\ pc = "example"
    /\ exI <= Len(examples)
    /\ ImportedLibraries' = <<>>
    /\ pc' = "exbuild"
    /\ UNCHANGED <<cfg_vars, watcher_vars, hvars, catalogFile, exit, indexJson,
                   previousRun, FQBN, libI, deps, internal_deps, exI, errors_examples,
                   buildErr, usingSymlink, finalJson, links, present, tempDirs,
                   cacheFile, observed, attempted, aliased, builds, finalizedBy,
                   probeFQBN, mainWrote>>

\* err = builder.RunBuilder(ctx) on the example
RunBuilderExample ==
    /\ Running /\ pc = "exbuild"
    /\ \E out \in BuildOutcomes(examples[exI]) :
         /\ ImportedLibraries' = out.imports
         /\ buildErr' = ~out.ok
         /\ observed' = [observed EXCEPT ![libI] = @ \cup Range(out.imports)]
         /\ builds' = [builds EXCEPT ![libI] = Append(@, out.ok)]
    /\ pc' = "exbuilt"
    /\ UNCHANGED <<cfg_vars, watcher_vars, hvars, catalogFile, exit, indexJson,
                   previousRun, FQBN, libI, deps, internal_deps, exI, errors_examples,
                   usingSymlink, finalJson, links, present, tempDirs, cacheFile,
                   attempted, aliased, finalizedBy, probeFQBN, mainWrote>>

\* the rest of the turn: record the error, classify the imports
AfterExample ==
    /\ Running /\ pc = "exbuilt"
    /\ errors_examples' = RecordError(errors_examples, ~buildErr)
    /\ LET c == ClassifyExample(ImportedLibraries, library, deps, internal_deps,
                                Libraries, OtherLibrariesFolders)
       IN  /\ deps' = c.deps
           /\ internal_deps' = c.internal
           /\ IF c.panic
              THEN exit' = "panic" /\ UNCHANGED <<pc, exI>>
              ELSE /\ exI' = exI + 1
                   /\ pc' = "example"
                   /\ UNCHANGED exit
    /\ UNCHANGED <<cfg_vars, watcher_vars, hvars, catalogFile, indexJson, previousRun,
                   FQBN, libI, ImportedLibraries, buildErr, usingSymlink, finalJson,
                   links, present, tempDirs, cacheFile, observed, attempted, aliased,
                   builds, finalizedBy, probeFQBN, mainWrote>>

\* the loop over the examples is over: print the summary
ExamplesDone ==
    /\ Running /\ pc = "example"
    /\ exI > Len(examples)
    /\ pc' = "finalize"
    /\ UNCHANGED <<cfg_vars, watcher_vars, hvars, catalogFile, exit, indexJson,
                   previousRun, FQBN, libI, ImportedLibraries, deps, internal_deps, exI,
                   errors_examples, buildErr, usingSymlink, finalJson, links, present,
                   tempDirs, cacheFile, observed, attempted, aliased, builds,
                   finalizedBy, probeFQBN, mainWrote>>

\* if usingSymlink { os.RemoveAll(symlinkWithBestName) }
RemoveSymlink ==
    /\ Running /\ pc = "finalize"
    /\ IF usingSymlink
       THEN /\ links' = {q \in links : Text(q) # Text(SymlinkWithBestName(library))}
            /\ present' = {q \in present : Text(q) # Text(SymlinkWithBestName(library))}
       ELSE UNCHANGED <<links, present>>
    /\ pc' = "store"
    /\ UNCHANGED <<cfg_vars, watcher_vars, hvars, catalogFile, exit, indexJson,
                   previousRun, FQBN, libI, ImportedLibraries, deps, internal_deps, exI,
                   errors_examples, buildErr, usingSymlink, finalJson, tempDirs,
                   cacheFile, observed, attempted, aliased, builds, finalizedBy,
                   probeFQBN, mainWrote>>

\* MarkAnalyzed on a map made anew for the library
MarkOnlyThis(cache, lib) ==
    [k \in DOMAIN cache |-> IF k = lib.Name THEN "true" ELSE "none"]

\* previousRun.Exists[library.Name] = true
MarkAnalyzed(cache, lib) == [cache EXCEPT ![lib.Name] = "true"]

\* AssignRequires clearing the record's URL as well
AssignRequiresAndURL(index, at, d) ==
    [index EXCEPT ![at].Requires = d, ![at].RequiresNil = (d = <<>>), ![at].URL = ""]

\* indexJson.Libraries[libIndex].Requires = deps: deps, declared by
\* "var deps []string" and grown by append, is nil when it has no element
AssignRequires(index, at, d) ==
    [index EXCEPT ![at].Requires = d, ![at].RequiresNil = (d = <<>>)]

\* the two assignments that end the iteration; the second one, an
\* assignment to an entry of a map, panics when the map is nil
StoreRequires ==
    /\ Running /\ pc = "store"
    /\ indexJson' = AssignRequires(indexJson, libIndex, deps)
    /\ finalizedBy' = Append(finalizedBy,
                              [lib |-> libI, rec |-> libIndex, requires |-> deps])
    /\ IF previousRun = NilMap
       THEN /\ exit' = "panic"
            /\ UNCHANGED <<previousRun, libI, pc>>
       ELSE /\ previousRun' = MarkAnalyzed(previousRun, library)
            /\ libI' = libI + 1
            /\ pc' = "loop"
            /\ UNCHANGED exit
    /\ UNCHANGED <<cfg_vars, watcher_vars, hvars, catalogFile, FQBN,
                   ImportedLibraries, deps, internal_deps, exI, errors_examples,
                   buildErr, usingSymlink, finalJson, links, present, tempDirs,
                   cacheFile, observed, attempted, aliased, builds, probeFQBN,
                   mainWrote>>

\* finalJson, err := json.MarshalIndent(&indexJson, ...)
MarshalFinal ==
    /\ Running /\ pc = "loop" /\ libI > NLibs
    /\ finalJson' = Marshal(indexJson)
    /\ pc' = "open"
    /\ UNCHANGED <<cfg_vars, watcher_vars, hvars, catalogFile, exit, indexJson,
                   previousRun, FQBN, libI, ImportedLibraries, deps, internal_deps, exI,
                   errors_examples, buildErr, usingSymlink, links, present, tempDirs,
                   cacheFile, observed, attempted, aliased, builds, finalizedBy,
                   probeFQBN, mainWrote>>

\* ioutil.WriteFile(*librariesJsonPath, finalJson, 0666): the open with O_TRUNC
OpenIndexFile ==
    /\ Running /\ pc = "open"
    /\ catalogFile' = ""
    /\ pc' = "write"
    /\ UNCHANGED <<cfg_vars, watcher_vars, hvars, exit, indexJson, previousRun, FQBN,
                   libI, ImportedLibraries, deps, internal_deps, exI, errors_examples,
                   buildErr, usingSymlink, finalJson, links, present, tempDirs,
                   cacheFile, observed, attempted, aliased, builds, finalizedBy,
                   probeFQBN, mainWrote>>

\* ioutil.WriteFile(*librariesJsonPath, finalJson, 0666): the write
WriteIndexFile ==
    /\ Running /\ pc = "write"
    /\ catalogFile' = WriteAt0(catalogFile, finalJson)
    /\ mainWrote' = mainWrote \cup {"index"}
    /\ pc' = "cacheOpen"
    /\ UNCHANGED <<cfg_vars, watcher_vars, hvars, exit, indexJson, previousRun, FQBN,
                   libI, ImportedLibraries, deps, internal_deps, exI, errors_examples,
                   buildErr, usingSymlink, finalJson, links, present, tempDirs,
                   cacheFile, observed, attempted, aliased, builds, finalizedBy,
                   probeFQBN>>

\* ioutil.WriteFile("cached_results.json", ...): the open with O_TRUNC
OpenCacheFile ==
    /\ Running /\ pc = "cacheOpen"
    /\ cacheFile' = <<>>
    /\ pc' = "cacheWrite"
    /\ UNCHANGED <<cfg_vars, watcher_vars, hvars, catalogFile, exit, indexJson,
                   previousRun, FQBN, libI, ImportedLibraries, deps, internal_deps, exI,
                   errors_examples, buildErr, usingSymlink, finalJson, links, present,
                   tempDirs, observed, attempted, aliased, builds, finalizedBy,
                   probeFQBN, mainWrote>>

\* ioutil.WriteFile("cached_results.json", ...): the write
WriteCacheFile ==
    /\ Running /\ pc = "cacheWrite"
    /\ cacheFile' = previousRun
    /\ mainWrote' = mainWrote \cup {"cache"}
    /\ pc' = "return"
    /\ UNCHANGED <<cfg_vars, watcher_vars, hvars, catalogFile, exit, indexJson,
                   previousRun, FQBN, libI, ImportedLibraries, deps, internal_deps, exI,
                   errors_examples, buildErr, usingSymlink, finalJson, links, present,
                   tempDirs, observed, attempted, aliased, builds, finalizedBy,
                   probeFQBN>>

\* main returns: the process ends with status 0
MainReturn ==
    /\ Running /\ pc = "return"
    /\ pc' = "done"
    /\ exit' = "0"
    /\ UNCHANGED <<cfg_vars, watcher_vars, hvars, catalogFile, indexJson, previousRun,
                   FQBN, libI, ImportedLibraries, deps, internal_deps, exI,
                   errors_examples, buildErr, usingSymlink, finalJson, links, present,
                   tempDirs, cacheFile, observed, attempted, aliased, builds,
                   finalizedBy, probeFQBN, mainWrote>>

-----------------------------------------------------------------------------
(* The signal goroutine *)

\* positions of main inside the range loop, its end test included
LoopPcs == {"loop", "linked", "tempdir", "build", "built", "removed", "example",
            "exbuild", "exbuilt", "finalize", "store"}

ChanCap == 2      \* make(chan os.Signal, 2)
MaxSignals == 1   \* signals the environment sends in one run

\* SIGINT or SIGTERM arrives: signal.Notify queues it unless the channel is full
Signal ==
    /\ Running
    /\ wpc # "none"    \* signal.Notify has been called
    /\ sigc < ChanCap
    /\ sigc + (IF wpc = "wait" THEN 0 ELSE 1) < MaxSignals
    /\ sigc' = sigc + 1
    /\ catAtSig' = IF wpc = "wait" /\ sigc = 0
                   THEN [index |-> indexJson, inLoop |-> pc \in LoopPcs,
                         finalized |-> Len(finalizedBy)]
                   ELSE catAtSig
    /\ UNCHANGED <<cfg_vars, hvars, main_vars, wpc, tempJsonCTRL, enc, catalogFile, exit>>

\* the encoder has encoded the records recs: it goes on to the next record,
\* or json.MarshalIndent returns the bytes
Encoded(recs) ==
    IF Len(recs) = Len(indexJson)
    THEN /\ tempJsonCTRL' = Marshal(recs)
         /\ wpc' = "open"
         /\ enc' = EncIdle
    ELSE /\ enc' = [EncIdle EXCEPT !.recs = recs]
         /\ wpc' = "encode"
         /\ UNCHANGED tempJsonCTRL

\* <-c: the goroutine receives the signal and enters json.MarshalIndent
WatcherReceive ==
    /\ Running /\ wpc = "wait" /\ sigc > 0
    /\ sigc' = sigc - 1
    /\ Encoded(<<>>)
    /\ UNCHANGED <<cfg_vars, hvars, main_vars, catAtSig, catalogFile, exit>>

\* the record the encoder is at
encRec == Len(enc.recs) + 1

\* the assignment of line 421 that is under way on record r, numbered within
\* the run; 0 when main is not at that line for r.  The goroutine reads the
\* words of the slice header with no synchronisation: while the assignment
\* is under way a word read holds the old or the assigned value, and a word
\* once read as assigned is not read as old again.
Assigning(r) == IF pc = "store" /\ libIndex = r THEN Len(finalizedBy) + 1 ELSE 0

\* reads of the length word, of the pointer word of record r's Requires:
\* TRUE for the value being assigned, FALSE for the value of indexJson
LenWords(r) ==
    (IF Assigning(r) # 0 THEN {TRUE} ELSE {}) \cup
    (IF Assigning(r) = 0 \/ enc.lenSeen # Assigning(r) THEN {FALSE} ELSE {})
DataWords(r) ==
    (IF Assigning(r) # 0 THEN {TRUE} ELSE {}) \cup
    (IF Assigning(r) = 0 \/ enc.dataSeen # Assigning(r) THEN {FALSE} ELSE {})

\* enc after the reads ln of the length word, dn of the pointer word
Seen(ln, dn) ==
    [enc EXCEPT !.lenSeen = IF ln THEN Assigning(encRec) ELSE @,
                !.dataSeen = IF dn THEN Assigning(encRec) ELSE @]

\* the encoder has the Requires of the record it is at: nil, or the elements
RecordEncoded(elems, nil) ==
    Encoded(Append(enc.recs, [indexJson[encRec] EXCEPT !.Requires = elems,
                                                       !.RequiresNil = nil]))

\* the slice encoder starts on the Requires of a record: v.IsNil() reads the
\* pointer word (a nil slice is encoded at once, as null), then n := v.Len()
\* reads the length word (no element: []).  deps is nil when it has no
\* element.
WatcherLen ==
    /\ Running /\ wpc = "encode" /\ enc.n = -1
    /\ \E dn \in DataWords(encRec), ln \in LenWords(encRec) :
         LET n == IF ln THEN Len(deps) ELSE Len(indexJson[encRec].Requires)
             nil == IF dn THEN deps = <<>> ELSE indexJson[encRec].RequiresNil
         IN  IF nil
             THEN RecordEncoded(<<>>, TRUE)
             ELSE IF n = 0
             THEN RecordEncoded(<<>>, FALSE)
             ELSE /\ enc' = [Seen(ln, dn) EXCEPT !.n = n]
                  /\ UNCHANGED <<wpc, tempJsonCTRL>>
    /\ UNCHANGED <<cfg_vars, hvars, main_vars, sigc, catAtSig, catalogFile, exit>>

\* what lies where an element is read past the end of its array: a free slot
\* of the array's capacity (the empty string) or other memory; the nil
\* pointer has no array to read
PastTheArray == {"", "?"}

\* v.Index(i) and the encoding of the element: Index reads the length word,
\* checks i against it and panics when it fails, then reads the pointer word
\* and the element at i of that array, past its end or not
WatcherIndex ==
    /\ Running /\ wpc = "encode" /\ enc.n >= 0
    /\ \E ln \in LenWords(encRec), dn \in DataWords(encRec) :
         LET i == Len(enc.elems) + 1
             old == indexJson[encRec].Requires
             length == IF ln THEN Len(deps) ELSE Len(old)
             array == IF dn THEN deps ELSE old
             nil == IF dn THEN deps = <<>> ELSE indexJson[encRec].RequiresNil
             values == IF i <= Len(array) THEN {array[i]}
                       ELSE IF nil THEN {}
                       ELSE PastTheArray
             faults == i > length \/ i > Len(array)
         IN  \/ /\ i <= length
                /\ \E v \in values :
                     IF i = enc.n
                     THEN RecordEncoded(Append(enc.elems, v), FALSE)
                     ELSE /\ enc' = [Seen(ln, dn) EXCEPT !.elems = Append(@, v)]
                          /\ UNCHANGED <<wpc, tempJsonCTRL>>
                /\ UNCHANGED exit
             \/ /\ faults
                /\ exit' = "panic"
                /\ wpc' = "fault"
                /\ UNCHANGED <<tempJsonCTRL, enc>>
    /\ UNCHANGED <<cfg_vars, hvars, main_vars, sigc, catAtSig, catalogFile>>

\* ioutil.WriteFile(*librariesJsonPath, tempJsonCTRL, 0666): the open with O_TRUNC
WatcherOpen ==
    /\ Running /\ wpc = "open"
    /\ catalogFile' = ""
    /\ wpc' = "write"
    /\ UNCHANGED <<cfg_vars, hvars, main_vars, sigc, tempJsonCTRL, enc, catAtSig, exit>>

\* ioutil.WriteFile(*librariesJsonPath, tempJsonCTRL, 0666): the write
WatcherWrite ==
    /\ Running /\ wpc = "write"
    /\ catalogFile' = WriteAt0(catalogFile, tempJsonCTRL)
    /\ wpc' = "exit"
    /\ UNCHANGED <<cfg_vars, hvars, main_vars, sigc, tempJsonCTRL, enc, catAtSig, exit>>

\* os.Exit(2)
WatcherExit ==
    /\ Running /\ wpc = "exit"
    /\ exit' = "2"
    /\ wpc' = "done"
    /\ UNCHANGED <<cfg_vars, hvars, main_vars, sigc, tempJsonCTRL, enc, catAtSig, catalogFile>>

Next ==
    \/ SkipNotInIndex
    \/ SkipAnalyzed
    \/ BeginProbe
    \/ MakeSketchDir
    \/ WriteSketch
    \/ RunBuilderPrimary
    \/ RemoveSketchDir
    \/ AfterBuild
    \/ StartExample
    \/ RunBuilderExample
    \/ AfterExample
    \/ ExamplesDone
    \/ RemoveSymlink
    \/ StoreRequires
    \/ MarshalFinal
    \/ OpenIndexFile
    \/ WriteIndexFile
    \/ OpenCacheFile
    \/ WriteCacheFile
    \/ MainReturn
    \/ Signal
    \/ WatcherReceive
    \/ WatcherLen
    \/ WatcherIndex
    \/ WatcherOpen
    \/ WatcherWrite
    \/ WatcherExit

Spec == Init /\ [][Next]_vars

-----------------------------------------------------------------------------
(* The main goroutine on its own, no signal sent, with a builder that may   *)
(* not return.  The goroutine runs whenever it can take a step.             *)

\* builder.RunBuilder(ctx) does not return: main stays inside the call
BuilderHangs ==
    /\ Running
    /\ pc \in {"build", "exbuild"}
    /\ pc' = "hung"
    /\ UNCHANGED <<cfg_vars, watcher_vars, hvars, catalogFile, exit, indexJson,
                   previousRun, FQBN, libI, ImportedLibraries, deps, internal_deps, exI,
                   errors_examples, buildErr, usingSymlink, finalJson, links, present,
                   tempDirs, cacheFile, observed, attempted, aliased, builds,
                   finalizedBy, probeFQBN, mainWrote>>

NextMain ==
    \/ SkipNotInIndex
    \/ SkipAnalyzed
    \/ BeginProbe
    \/ MakeSketchDir
    \/ WriteSketch
    \/ RunBuilderPrimary
    \/ RemoveSketchDir
    \/ AfterBuild
    \/ StartExample
    \/ RunBuilderExample
    \/ AfterExample
    \/ ExamplesDone
    \/ RemoveSymlink
    \/ StoreRequires
    \/ MarshalFinal
    \/ OpenIndexFile
    \/ WriteIndexFile
    \/ OpenCacheFile
    \/ WriteCacheFile
    \/ MainReturn
    \/ BuilderHangs

SpecMain == Init /\ [][NextMain]_vars /\ WF_vars(NextMain)

-----------------------------------------------------------------------------
(* Startup: main from flag.Parse to the start of the signal goroutine.  The *)
(* run starts on any command line and any content of the two files.         *)

\* what a read finds where the file does not exist
Absent == <<"#", "no", "such", "file", "or", "directory">>

\* previousRun.Exists = make(map[string]bool)
EmptyCache(w) == [k \in CacheKeys(w) |-> "none"]

\* LoadCache taking a file that does not decode for an empty cache
LoadCacheLenient(f, w) ==
    IF f \in Caches(w) \cup {NilMap}
    THEN [fatal |-> FALSE, Exists |-> f]
    ELSE [fatal |-> FALSE, Exists |-> EmptyCache(w)]

\* ioutil.ReadFile("cached_results.json") and json.Unmarshal(prev, &previousRun):
\* a read error leaves the empty map, a decoding error is fatal
LoadCache(f, w) ==
    IF f = Absent
    THEN [fatal |-> FALSE, Exists |-> EmptyCache(w)]
    ELSE IF f \in Caches(w) \cup {NilMap}
         THEN [fatal |-> FALSE, Exists |-> f]
         ELSE [fatal |-> TRUE, Exists |-> EmptyCache(w)]

\* what ioutil.ReadFile(*librariesJsonPath) gives: the whole index, no byte
\* (the file is missing or empty; the error is dropped), or the index cut
\* short of its last byte
CatalogFiles(w) ==
    LET whole == Marshal(WorldOf(w).index)
    IN  {whole, "", SubSeq(whole, 1, Len(whole) - 1)}

\* cached_results.json: a map, the null map, missing, or empty
CacheFiles(w) == Caches(w) \cup {NilMap, Absent, <<>>}

\* the installations the runs that start are on
StartWorlds == {"substr", "mixed", "none"}

InitStart ==
    /\ world \in StartWorlds
    /\ forceRebuild \in BOOLEAN
    /\ exampleFlag \in BOOLEAN
    /\ args \in CommandLines
    /\ indexJson = <<>>
    /\ previousRun = <<>>
    /\ FQBN = ""
    /\ pc = "start"
    /\ libI = 1
    /\ ImportedLibraries = <<>>
    /\ deps = <<>>
    /\ internal_deps = <<>>
    /\ exI = 1
    /\ errors_examples = 0
    /\ buildErr = FALSE
    /\ usingSymlink = FALSE
    /\ finalJson = ""
    /\ links = {}
    /\ present = {Folder(Libraries[k]) : k \in 1..NLibs}
    /\ tempDirs = {}
    /\ wpc = "none"
    /\ sigc = 0
    /\ tempJsonCTRL = ""
    /\ enc = EncIdle
    /\ catalogFile \in CatalogFiles(world)
    /\ cacheFile \in CacheFiles(world)
    /\ cache0 = <<>>
    /\ exit = "running"
    /\ observed = [k \in 1..NLibs |-> {}]
    /\ attempted = {}
    /\ aliased = {}
    /\ builds = [k \in 1..NLibs |-> <<>>]
    /\ finalizedBy = <<>>
    /\ probeFQBN = [k \in 1..NLibs |-> "-"]
    /\ catAtSig = [index |-> <<>>, inLoop |-> FALSE, finalized |-> 0]
    /\ mainWrote = {}
    /\ hdrTree = LibraryFolder
    /\ hdrScore = [n \in HdrNames |-> 0]
    /\ hdrOut = NotCalled
    /\ SelIdle

\* the flags up to -build-path (lines 153-209) end the process with status 1
FlagsFatal(a) ==
    \/ ~a.json
    \/ a.hardware # "ok"
    \/ a.tools # "ok"
    \/ a.libraries = "unquotable"
    \/ a.builtIn = "unquotable"
    \/ a.buildPath \in {"unquotable", "nostat", "noensure"}

\* main up to "go func()": the flags, the default board, the core cache
\* folder, the cache, the index, signal.Notify; os.Exit(1) at the first check
\* that fails.  builder.RunParseHardwareAndDumpBuildProperties(ctx) fills
\* ctx.Libraries with the libraries of the installation and its error is
\* dropped: Libraries is empty when it fails (the installation "none").
Startup ==
    /\ Running /\ pc = "start"
    /\ LET cache == LoadCache(cacheFile, world)
       IN  IF FlagsFatal(args)
           THEN /\ exit' = "1"
                /\ UNCHANGED <<FQBN, tempDirs, previousRun, cache0, indexJson, pc, wpc>>
           ELSE /\ FQBN' = DefaultFQBN
                /\ tempDirs' = tempDirs \cup {CoreCacheDir}
                /\ IF cache.fatal \/ ~Decodes(catalogFile)
                   THEN /\ exit' = "1"
                        /\ UNCHANGED <<previousRun, cache0, indexJson, pc, wpc>>
                   ELSE /\ previousRun' = cache.Exists
                        /\ cache0' = cache.Exists
                        /\ indexJson' = Unmarshal(catalogFile)
                        /\ wpc' = "wait"
                        /\ pc' = "loop"
                        /\ UNCHANGED exit
    /\ UNCHANGED <<world, forceRebuild, exampleFlag, args, hvars, sigc, tempJsonCTRL, enc,
                   catAtSig, catalogFile, cacheFile, libI, ImportedLibraries, deps,
                   internal_deps, exI, errors_examples, buildErr, usingSymlink,
                   finalJson, links, present, observed, attempted, aliased,
                   builds, finalizedBy, probeFQBN, mainWrote>>

NextStart == Startup \/ Next

SpecStart == InitStart /\ [][NextStart]_vars

-----------------------------------------------------------------------------
(* Header selection on its own: any library folder, any scores *)

MainIdle ==
    /\ world = "e2e"
    /\ forceRebuild = FALSE
    /\ exampleFlag = FALSE
    /\ args = AllGiven
    /\ indexJson = <<>>
    /\ previousRun = <<>>
    /\ FQBN = DefaultFQBN
    /\ pc = "sketch"
    /\ libI = 1
    /\ ImportedLibraries = <<>>
    /\ deps = <<>>
    /\ internal_deps = <<>>
    /\ exI = 1
    /\ errors_examples = 0
    /\ buildErr = FALSE
    /\ usingSymlink = FALSE
    /\ finalJson = ""
    /\ links = {}
    /\ present = {}
    /\ tempDirs = {}
    /\ wpc = "none"
    /\ sigc = 0
    /\ tempJsonCTRL = ""
    /\ enc = EncIdle
    /\ catalogFile = ""
    /\ cacheFile = <<>>
    /\ cache0 = <<>>
    /\ exit = "running"
    /\ observed = <<>>
    /\ attempted = {}
    /\ aliased = {}
    /\ builds = <<>>
    /\ finalizedBy = <<>>
    /\ probeFQBN = <<>>
    /\ catAtSig = [index |-> <<>>, inLoop |-> FALSE, finalized |-> 0]
    /\ mainWrote = {}

InitHdr ==
    /\ MainIdle
    /\ hdrTree \in RootFolders
    /\ hdrScore \in [HdrNames -> ScoreValues]
    /\ hdrOut = NotCalled
    /\ SelIdle

\* sketch := includeHeadersFromLibraryFolder(library)
IncludeHeaders ==
    /\ pc = "sketch"
    /\ ~hdrOut.called
    /\ hdrOut' = [called  |-> TRUE,
                  headers |-> findFilesInFolder(hdrTree, <<>>).sources,
                  sketch  |-> includeHeadersFromLibraryFolder(hdrTree, hdrScore)]
    /\ UNCHANGED <<mvars, hdrTree, hdrScore, selLib, selPrev, selOut>>

NextHdr == IncludeHeaders

SpecHdr == InitHdr /\ [][NextHdr]_vars

-----------------------------------------------------------------------------
(* Board selection on its own: any name, any architectures, any board left  *)
(* by the iteration before.                                                 *)

InitSel ==
    /\ MainIdle
    /\ hdrTree = NoFolder
    /\ hdrScore = [n \in HdrNames |-> 0]
    /\ hdrOut = NotCalled
    /\ selLib \in {Lib(RootL, n, "x", a) : n \in SelNames, a \in SelArchs}
    /\ selPrev \in SelBoards
    /\ selOut = "-"

\* lines 298-322 of one iteration
SelectBoard ==
    /\ pc = "sketch"
    /\ selOut = "-"
    /\ selLib # NoLib
    /\ selOut' = SelectFQBN(selPrev, selLib)
    /\ UNCHANGED <<mvars, hdrTree, hdrScore, hdrOut, selLib, selPrev>>

NextSel == SelectBoard

SpecSel == InitSel /\ [][NextSel]_vars

-----------------------------------------------------------------------------
(* Properties *)

Finalized == {finalizedBy[k].lib : k \in 1..Len(finalizedBy)}
RecordOf(i) == indexJsonContains(W.index, Libraries[i].RealName, Libraries[i].Version)
NoSignal == wpc = "wait" /\ sigc = 0

\* the -libraries dependencies the builder imported while library i was probed
ExternalSeen(i) ==
    {Libraries[d].RealName :
        d \in {x \in observed[i] :
                 /\ Libraries[x].RealName # Libraries[i].RealName
                 /\ \E r \in Range(OtherLibrariesFolders) : Under(Folder(Libraries[x]), r)}}

\* C1: when the run completes, the Requires of the record of every processed
\* library is exactly the set of externally distributed libraries imported
\* during that library's own probes, without duplicates and without the
\* library itself.
C1_RequiresExact ==
    exit = "0" =>
        \A i \in Finalized :
            LET requires == indexJson[RecordOf(i)].Requires
            IN  /\ Range(requires) = ExternalSeen(i)
                /\ NoDuplicates(requires)
                /\ Libraries[i].RealName \notin Range(requires)

\* C2: after an exit on a signal that arrived during the main loop, the index
\* file decodes and holds the index as it was when the signal arrived: the
\* final Requires of the libraries finalized before, the loaded Requires of
\* the others.
C2_InterruptedCatalog ==
    (exit = "2" /\ catAtSig.inLoop) =>
        /\ Decodes(catalogFile)
        /\ catalogFile = Marshal(catAtSig.index)

\* C3: in every state the index file is a whole serialization of an index.
C3_AlwaysWhole == Decodes(catalogFile)

\* C4: without -force, a library that the loaded cache marks analysed gets no
\* symlink and no RunBuilder call, and its record of the index is not
\* rewritten in the run: no assignment of line 421 is to that record.
C4_SkipsAnalyzed ==
    \A i \in 1..NLibs :
        (~forceRebuild /\ Exists(cache0, Libraries[i].Name)) =>
            /\ i \notin aliased
            /\ builds[i] = <<>>
            /\ i \notin attempted
            /\ i \notin Finalized
            /\ \A k \in 1..Len(finalizedBy) : finalizedBy[k].rec # RecordOf(i)

\* C5 as stated: with -force, when the run completes every record of the index
\* has been probed and finalized.
C5_ForceAllRecords ==
    (forceRebuild /\ exit = "0") =>
        \A r \in 1..Len(indexJson) :
            \E i \in Finalized : RecordOf(i) = r /\ builds[i] # <<>>

\* C5 amended: with -force, when the run completes every library on disk that
\* has a record in the index has been probed and finalized, whatever the cache
\* held.
C5_ForceAllOnDisk ==
    (forceRebuild /\ exit = "0") =>
        \A i \in 1..NLibs :
            RecordOf(i) # 0 => (builds[i] # <<>> /\ i \in Finalized)

C5_Witness ==
    /\ forceRebuild /\ exit = "0"
    /\ \E i \in Finalized : Exists(cache0, Libraries[i].Name)

\* C6: the cache only grows, every finalized library is marked (in a map
\* that is not nil: on the nil map line 422 ends the process), and on normal
\* completion index and cache have been written, the written cache being the
\* grown one, in which every attempted library is marked.
C6_CacheGrows ==
    /\ \A k \in DOMAIN cache0 : cache0[k] = "true" => previousRun[k] = "true"
    /\ \A k \in DOMAIN cache0 : cache0[k] # "none" => previousRun[k] # "none"
    /\ IF previousRun # NilMap
       THEN \A i \in Finalized : Exists(previousRun, Libraries[i].Name)
       ELSE Finalized # {} => exit = "panic"
    /\ exit = "0" =>
         /\ mainWrote = {"index", "cache"}
         /\ cacheFile = previousRun
         /\ \A i \in attempted : Exists(cacheFile, Libraries[i].Name)
         /\ \A k \in DOMAIN cache0 : cache0[k] = "true" => Exists(cacheFile, k)

C6_Witness ==
    /\ exit = "0"
    /\ Exists(cache0, StaleKey)
    /\ \E i \in attempted :
         /\ ~Exists(cache0, Libraries[i].Name)
         /\ \E k \in 1..Len(builds[i]) : ~builds[i][k]
         /\ Exists(cacheFile, Libraries[i].Name)

\* the scenario: libraries A and B, empty cache, no examples, no signal, the
\* builder reporting A among the imports of B's sketch
C7_Scenario ==
    /\ world = "e2e"
    /\ \A k \in DOMAIN cache0 : cache0[k] = "none"
    /\ ~exampleFlag
    /\ NoSignal
    /\ exit = "0"
    /\ observed[1] \subseteq {1} /\ observed[2] = {1, 2}

C7_Requires ==
    /\ indexJson[1].Requires = <<>>
    /\ indexJson[2].Requires = <<"A">>
    /\ catalogFile = Marshal(<<RecNull("A"), Rec("B", <<"A">>)>>)

\* C7 as stated: the run leaves A's Requires empty, B's Requires [A], and the
\* cache marking A and B.
C7_EndToEndCanonical ==
    C7_Scenario =>
        /\ C7_Requires
        /\ Exists(cacheFile, <<"A">>) /\ Exists(cacheFile, <<"B">>)

\* C7 amended: the run leaves A's Requires empty, B's Requires [A], and the
\* cache marking the two libraries under their folder names, A-1.0.0 and b.
C7_EndToEnd ==
    C7_Scenario =>
        /\ C7_Requires
        /\ Exists(cacheFile, <<"A", "-1.0.0">>) /\ Exists(cacheFile, <<"b">>)
        /\ {k \in DOMAIN cacheFile : cacheFile[k] = "true"} = {<<"A", "-1.0.0">>, <<"b">>}

C7_Witness == C7_Scenario

\* path p is listed before path q: a file before the files of the subfolders
\* of its folder, the files of a folder in listing order, the subfolders of a
\* folder in listing order
RECURSIVE ListedBefore(_, _, _)
ListedBefore(folder, p, q) ==
    IF Len(p) = 1 /\ Len(q) = 1
    THEN \E a, b \in 1..Len(folder.files) :
            a < b /\ folder.files[a] = p[1] /\ folder.files[b] = q[1]
    ELSE IF Len(p) = 1 THEN TRUE
    ELSE IF Len(q) = 1 THEN FALSE
    ELSE IF p[1] # q[1] THEN p[1] < q[1]
    ELSE ListedBefore(folder.dirs[p[1]], Tail(p), Tail(q))

\* the header files of a folder, as paths
RECURSIVE HeaderPaths(_)
HeaderPaths(folder) ==
    {<<f>> : f \in Range(folder.files)} \cup
    UNION {{<<k>> \o p : p \in HeaderPaths(folder.dirs[k])} : k \in 1..Len(folder.dirs)}

\* C8: the headers are enumerated once each, files of a folder before the
\* files of its subfolders, subfolders in listing order; the sketch includes
\* the headers scoring above 0.9 and no others, or, when none does, only the
\* first header enumerated.
C8_HeaderSelection ==
    hdrOut.called =>
        LET headers == hdrOut.headers
            above == {k \in 1..Len(headers) : hdrScore[Base(headers[k])] > Threshold}
        IN  /\ Range(headers) = HeaderPaths(hdrTree)
            /\ NoDuplicates(headers)
            /\ \A a, b \in 1..Len(headers) :
                 a < b => ListedBefore(hdrTree, headers[a], headers[b])
            /\ above # {} =>
                 /\ Len(hdrOut.sketch) = Cardinality(above)
                 /\ Range(hdrOut.sketch) = {Base(headers[k]) : k \in above}
            /\ (above = {} /\ headers # <<>>) => hdrOut.sketch = <<Base(headers[1])>>
            /\ headers = <<>> => hdrOut.sketch = <<>>

\* no rule of the board selection matches the library
MatchesNoRule(lib) == SelectFQBN("kept", lib) = "kept"

\* C9: a library that matches no architecture rule and no name rule is probed
\* with the default board, whichever libraries were processed before it.
C9_DefaultProfile ==
    \A i \in attempted :
        (probeFQBN[i] # "-" /\ MatchesNoRule(Libraries[i])) => probeFQBN[i] = DefaultFQBN

\* C10: once an iteration is over, or the process has exited, no symlink and
\* no sketch folder of a probe is left.
C10_TempScoped ==
    (exit # "running" \/ pc \notin {"linked", "tempdir", "build", "built", "removed",
                                    "example", "exbuild", "exbuilt", "finalize"}) =>
        (links = {} /\ tempDirs \ {CoreCacheDir} = {})

\* the goroutine has received a signal from channel c
SignalObserved == wpc \in {"encode", "open", "write", "exit", "done", "fault"}

\* C11: once the goroutine has observed a signal the process does not end
\* with status 0: the run ends with the goroutine's write and status 2.
C11_InterruptCommits == SignalObserved => exit # "0"

\* C12: at startup, a missing mandatory parameter, a cache file that is
\* present but does not decode, or an index file that does not decode ends
\* the process with status 1, no library probed and neither file written; with
\* nothing wrong on the command line and an index that decodes, an absent
\* cache file gives the empty cache and the run goes on to the loop.
C12_StartupErrors ==
    [][pc = "start" =>
        LET missing == ~args.json \/ args.hardware = "absent" \/ args.tools = "absent"
            badCache == cacheFile \notin Caches(world) \cup {NilMap, Absent}
            badIndex == catalogFile # Marshal(W.index)
        IN  /\ (missing \/ badCache \/ badIndex) =>
                 /\ exit' = "1" /\ pc' = "start" /\ wpc' = "none"
                 /\ catalogFile' = catalogFile /\ cacheFile' = cacheFile
                 /\ attempted' = {} /\ builds' = builds /\ mainWrote' = {}
            /\ (args \in {AllGiven, [AllGiven EXCEPT !.buildPath = "ok"]}
                   /\ cacheFile = Absent /\ ~badIndex) =>
                 /\ exit' = "running" /\ pc' = "loop" /\ wpc' = "wait"
                 /\ indexJson' = W.index
                 /\ previousRun' = EmptyCache(world)
                 /\ catalogFile' = catalogFile /\ cacheFile' = cacheFile
    ]_vars

C12_Witness ==
    /\ exit = "1" /\ pc = "start"
    /\ args = AllGiven
    /\ cacheFile = <<>>
    /\ catalogFile = Marshal(W.index)
    /\ attempted = {}

\* the bytes json.MarshalIndent has produced so far, for the goroutine and
\* for the end-of-run save
Serialized == {tempJsonCTRL, finalJson} \ {""}

\* the values record r may hold: the loaded Requires and the values assigned
\* at the end of an iteration
LegitRequires(r) ==
    {W.index[r].Requires} \cup
    {finalizedBy[k].requires : k \in {x \in 1..Len(finalizedBy) : finalizedBy[x].rec = r}} \cup
    (IF pc = "store" /\ libIndex = r THEN {deps} ELSE {})

\* C13: every serialization of the index decodes and holds, for each record,
\* the Requires loaded at startup or a value assigned at the end of an
\* iteration; no serialization holds a half-written record.
C13_OnlyFinalRequires ==
    \A bytes \in Serialized :
        /\ Decodes(bytes)
        /\ Len(Unmarshal(bytes)) = Len(W.index)
        /\ \A r \in 1..Len(W.index) : Unmarshal(bytes)[r].Requires \in LegitRequires(r)

\* the goroutine's ioutil.WriteFile has written the index file
WatcherWrote == wpc \in {"exit", "done"}

\* C14: in one run the goroutine's write on a signal and the end-of-run save
\* do not both write the index file.
C14_OneWriter == ~(WatcherWrote /\ "index" \in mainWrote)

\* the disk libraries finalized before the signal arrived
FinalizedAtSignal == {finalizedBy[k].lib : k \in 1..catAtSig.finalized}

\* C15: after an exit on a signal, cached_results.json marks every library
\* that was finalized before the signal arrived.
C15_CachePersisted ==
    exit = "2" =>
        \A i \in FinalizedAtSignal : Exists(cacheFile, Libraries[i].Name)

\* the entries next to the library folders when the run starts
InitiallyPresent == {Folder(Libraries[k]) : k \in 1..NLibs}

\* C16: when os.Symlink failed because an entry was already at the path, the
\* entry is still there once the iteration is over.
C16_AliasFailureHarmless ==
    \A i \in aliased \cap Finalized :
        SymlinkWithBestName(Libraries[i]) \in InitiallyPresent =>
            SymlinkWithBestName(Libraries[i]) \in present

\* C17: without a signal, the process does not end while a library whose
\* probe was started is not finalized.
C17_ProbedIsFinalized ==
    (NoSignal /\ exit # "running") => attempted \subseteq Finalized

\* C18: in one run the Requires of a record is assigned at most once.
C18_AssignedOnce ==
    \A a, b \in 1..Len(finalizedBy) :
        finalizedBy[a].rec = finalizedBy[b].rec => a = b

\* the rule table of the board selection, in order: whether the rule matches
\* the library, and the board it selects
RuleTable(lib) ==
    <<[matches |-> lib.Archs[1] = "*" \/ "avr" \in Range(lib.Archs),
       board   |-> "arduino:avr:micro"],
      [matches |-> Contains(lib.Name, <<"Robot">>) /\ Contains(lib.Name, <<"Control">>),
       board   |-> "arduino:avr:robotControl"],
      [matches |-> Contains(lib.Name, <<"Robot">>) /\ ~Contains(lib.Name, <<"Control">>),
       board   |-> "arduino:avr:robotMotor"],
      [matches |-> Contains(lib.Name, <<"Adafruit">>) /\ Contains(lib.Name, <<"Playground">>),
       board   |-> "arduino:avr:circuitplay32u4cat"],
      [matches |-> "sam" \in Range(lib.Archs), board |-> "arduino:sam:arduino_due_x_dbg"],
      [matches |-> "samd" \in Range(lib.Archs), board |-> "arduino:samd:mkr1000"],
      [matches |-> "arc32" \in Range(lib.Archs), board |-> "Intel:arc32:arduino_101"],
      [matches |-> "esp8266" \in Range(lib.Archs),
       board   |-> "esp8266:esp8266:nodemcuv2:CpuFrequency=80,UploadSpeed=115200,FlashSize=4M3M"]>>

FirstArchRule == 5   \* position of the "sam" rule in RuleTable

\* C19: the board of a probe is the board of the last rule of the table that
\* matches the library; a library that declares sam, samd, arc32 or esp8266
\* gets the board of one of these, whatever its name.
C19_LastMatchWins ==
    selOut # "-" =>
        LET table == RuleTable(selLib)
            hits == {n \in 1..Len(table) : table[n].matches}
            last == CHOOSE n \in hits : \A j \in hits : j <= n
        IN  /\ hits # {} => selOut = table[last].board
            /\ (\E n \in hits : n >= FirstArchRule) =>
                 \E n \in FirstArchRule..Len(table) :
                    table[n].matches /\ selOut = table[n].board

C19_Witness ==
    /\ selOut = "arduino:samd:mkr1000"
    /\ selPrev = DefaultFQBN
    /\ selLib.Archs = <<"samd", "sam">>
    /\ Contains(selLib.Name, <<"Robot">>) /\ Contains(selLib.Name, <<"Control">>)

\* the folder of disk library x lies under one of the -libraries folders
UnderOtherLibraries(x) ==
    \E r \in Range(OtherLibrariesFolders) : Under(Folder(Libraries[x]), r)

\* C20: once the imports of a probe are classified, an imported library other
\* than the library itself is in deps if and only if its folder lies under
\* one of the -libraries folders, and in internal_deps otherwise.
C20_ExternalIffUnderRoot ==
    (Running /\ pc \in {"example", "finalize", "store"}) =>
        \A x \in observed[libI] :
            Libraries[x].RealName # library.RealName =>
                /\ Libraries[x].RealName \in Range(deps) <=> UnderOtherLibraries(x)
                /\ Libraries[x].RealName \in Range(internal_deps) <=> ~UnderOtherLibraries(x)

\* the names of the libraries imported so far by the probes of the library
\* in hand, the library itself left out
ImportedSoFar ==
    {Libraries[x].RealName : x \in observed[libI]} \ {library.RealName}

\* C21: while a library is processed, deps and internal_deps are disjoint and
\* free of duplicates, and after each probe their union is the set of names
\* imported so far for the library, the library itself left out.
C21_Partition ==
    (Running /\ pc \in {"example", "exbuild", "finalize", "store"}) =>
        /\ Range(deps) \cap Range(internal_deps) = {}
        /\ NoDuplicates(deps) /\ NoDuplicates(internal_deps)
        /\ Range(deps) \cup Range(internal_deps) = ImportedSoFar

C21_Witness ==
    /\ Running /\ pc = "example" /\ world = "mixed" /\ libI = 3
    /\ builds[3] = <<TRUE, TRUE>>
    /\ observed[3] = {1, 2, 3}
    /\ deps = <<"X">> /\ internal_deps = <<"C">>

\* a is an initial part of b
IsPrefix(a, b) == Len(a) <= Len(b) /\ SubSeq(b, 1, Len(a)) = a

\* C22: during the example pass deps and internal_deps only grow: every step
\* taken while the examples of a library are probed keeps what the two held.
C22_ExamplesOnlyAdd ==
    [][(pc \in {"example", "exbuild", "exbuilt"}) =>
          (IsPrefix(deps, deps') /\ IsPrefix(internal_deps, internal_deps'))
    ]_vars

C22_Witness ==
    /\ Running /\ pc = "example" /\ world = "mixed" /\ libI = 3
    /\ builds[3] = <<TRUE, TRUE, FALSE>>
    /\ ImportedLibraries = <<>>
    /\ deps = <<"X">> /\ internal_deps = <<"C">>

\* the example probes among the RunBuilder calls made for a library, and
\* those of them that failed
ExampleProbes(i) == Len(builds[i]) - 1
FailedExamples(i) == Cardinality({k \in 2..Len(builds[i]) : ~builds[i][k]})

\* C23: with -examples every example of a library is probed once, on the
\* board of the library's primary probe, each failing example adds one entry
\* to errors_examples and the pass goes on; without -examples no example is
\* probed.
C23_ExamplesProbedOnce ==
    /\ \A i \in Finalized :
         ExampleProbes(i) = IF exampleFlag THEN Len(W.examples[i]) ELSE 0
    /\ (Running /\ pc \in {"example", "exbuild"}) =>
         /\ exampleFlag
         /\ exI <= Len(examples) + 1
         /\ ExampleProbes(libI) = exI - 1
         /\ errors_examples = FailedExamples(libI)
         /\ FQBN = probeFQBN[libI]
    /\ (Running /\ pc = "exbuilt") =>
         /\ exI <= Len(examples)
         /\ ExampleProbes(libI) = exI
         /\ FQBN = probeFQBN[libI]
    /\ (Running /\ pc \in {"finalize", "store"}) =>
         /\ ExampleProbes(libI) = IF exampleFlag THEN Len(examples) ELSE 0
         /\ errors_examples = FailedExamples(libI)
         /\ FQBN = probeFQBN[libI]

C23_Witness ==
    /\ Running /\ pc = "finalize" /\ world = "mixed" /\ libI = 3
    /\ exampleFlag
    /\ builds[3] = <<TRUE, FALSE, TRUE>>
    /\ errors_examples = 1

\* main is at the head of an iteration that the code skips: the library has
\* no record, or the cache marks it and -force is off
AtSkippedIteration ==
    /\ InLoop
    /\ \/ RecordOf(libI) = 0
       \/ Exists(previousRun, library.Name) /\ ~forceRebuild

\* C24: a skipped iteration creates no symlink, calls no builder and leaves
\* the index and the cache in memory as they were; no step of the run changes
\* the number or order of the records or a field other than Requires.
C24_SkipChangesNothing ==
    [][/\ AtSkippedIteration =>
            /\ indexJson' = indexJson /\ previousRun' = previousRun
            /\ links' = links /\ present' = present /\ tempDirs' = tempDirs
            /\ aliased' = aliased /\ attempted' = attempted /\ builds' = builds
       /\ Len(indexJson') = Len(indexJson)
       /\ \A r \in 1..Len(indexJson) :
            /\ indexJson'[r].LibraryName = indexJson[r].LibraryName
            /\ indexJson'[r].Version = indexJson[r].Version
            /\ indexJson'[r].URL = indexJson[r].URL
    ]_vars

C24_Witness ==
    /\ Running /\ pc = "loop" /\ world = "dups" /\ libI = 4
    /\ ~forceRebuild
    /\ Exists(cache0, Libraries[1].Name) /\ ~Exists(cache0, Libraries[2].Name)
    /\ Finalized = {2}
    /\ attempted = {2}

\* C25: the run ends only by normal completion or on a signal; the loop never
\* ends the process by reading the first element of an empty slice.
C25_NoAbnormalEnd == exit \in {"running", "0", "2"}

\* C26: a RunBuilder call that does not return is ended, and main goes on.
C26_TimeoutEndsProbe == (pc = "hung") ~> (pc # "hung")

====
